---- MODULE Spec2Model ----
(***************************************************************************)
(* The puzzle-solution workspace manager: the scaffold generator           *)
(* (src/src/template.py), the registry enumerator (get_available_days),    *)
(* the execution harness (src/src/runner.py) and the CLI entry point       *)
(* (src/main.py), over a filesystem of year partitions.                    *)
(*                                                                         *)
(* File names are sequences of one-character strings, so that formatting   *)
(* a day into a file name (f"day{day:02d}.py") and parsing a file name     *)
(* back into a day (int(stem.replace("day", ""))) are two computations.    *)
(***************************************************************************)
EXTENDS Integers, Sequences, FiniteSets, TLC

VARIABLES
    cfg,        \* .aoc-cli.json: absent, without a year key, or holding a year
    sol,        \* sol[y][name]: the files of <y>/solutions
    tst,        \* tst[y][d]: <y>/tests/test_day<DD>.py
    conftest,   \* conftest[y]: <y>/tests/conftest.py
    testsInit,  \* testsInit[y]: <y>/tests/__init__.py exists
    example,    \* example[y][d]: <y>/data/examples/<DD>.txt
    input,      \* input[y][d]: <y>/data/inputs/<DD>.txt
    puzzle,     \* puzzle[y][d]: <y>/data/puzzles/<DD>.md
    writes,     \* writes[y][d]: write_text calls on the solution file since
                \* the path last did not exist
    out,        \* what the last command did and printed
    pc          \* pc[p]: where each concurrent scaffold invocation stands

vars == <<cfg, sol, tst, conftest, testsInit, example, input, puzzle, writes, out, pc>>

fsvars == <<sol, tst, conftest, testsInit, example, input, puzzle, writes>>

----------------------------------------------------------------------------
(* Bounds and program constants *)

\* config.get("year", 2025)
DefaultYear == 2025

\* The year partitions the model looks at.
Years == {2024, 2025}

\* The days the model scaffolds and runs: below and above ten, so that the
\* zero padding of f"{day:02d}" both happens and does not.
Days == {1, 7, 12}

\* time.perf_counter() differences, in whole ticks: 1..MaxDur
MaxDur == 2

Durations == 1..MaxDur

\* Cap of the writes counter.
MaxWrites == 2

\* Concurrent scaffold invocations (two processes of the CLI).
Procs == {"p1", "p2"}

----------------------------------------------------------------------------
(* File names *)

DigitChars == <<"0", "1", "2", "3", "4", "5", "6", "7", "8", "9">>

RECURSIVE Decimal(_)
\* str(n) for n >= 0
Decimal(n) ==
    IF n < 10 THEN <<DigitChars[n + 1]>>
    ELSE Decimal(n \div 10) \o <<DigitChars[(n % 10) + 1]>>

\* f"{day:02d}": at least two characters, zero padded on the left
DayPadded(day) ==
    IF day < 0 THEN <<"-">> \o Decimal(0 - day)
    ELSE IF day < 10 THEN <<"0">> \o Decimal(day)
    ELSE Decimal(day)

DayPrefix == <<"d", "a", "y">>

PySuffix == <<".", "p", "y">>

\* f"day{day_padded}.py"
SolutionName(day) == DayPrefix \o DayPadded(day) \o PySuffix

\* solutions/__init__.py
InitName == <<"_", "_", "i", "n", "i", "t", "_", "_", ".", "p", "y">>

\* Files a user can drop into a solutions directory by hand.
StrayNames ==
    { <<"d", "a", "y", "7", ".", "p", "y">>,
      <<"d", "a", "y", "0", "0", "7", ".", "p", "y">>,
      <<"d", "a", "y", "X", "X", ".", "p", "y">> }

StartsWith(s, p) == Len(s) >= Len(p) /\ SubSeq(s, 1, Len(p)) = p

EndsWith(s, p) == Len(s) >= Len(p) /\ SubSeq(s, Len(s) - Len(p) + 1, Len(s)) = p

\* solutions_dir.glob("day*.py")
GlobDayPy(name) ==
    /\ Len(name) >= Len(DayPrefix) + Len(PySuffix)
    /\ StartsWith(name, DayPrefix)
    /\ EndsWith(name, PySuffix)

\* Path.stem: the name without its last suffix
Stem(name) ==
    LET dots == {i \in 2..Len(name) : name[i] = "."}
    IN  IF dots = {} THEN name
        ELSE SubSeq(name, 1, (CHOOSE i \in dots : \A j \in dots : j <= i) - 1)

RECURSIVE RemoveAll(_, _)
\* str.replace(old, ""): every non-overlapping occurrence, left to right
RemoveAll(s, old) ==
    IF s = <<>> THEN <<>>
    ELSE IF StartsWith(s, old) THEN RemoveAll(SubSeq(s, Len(old) + 1, Len(s)), old)
    ELSE <<Head(s)>> \o RemoveAll(Tail(s), old)

DigitValue(c) == CHOOSE v \in 0..9 : DigitChars[v + 1] = c

IsDigit(c) == \E v \in 0..9 : DigitChars[v + 1] = c

RECURSIVE DigitsValue(_, _)
DigitsValue(s, acc) ==
    IF s = <<>> THEN acc ELSE DigitsValue(Tail(s), acc * 10 + DigitValue(Head(s)))

\* int(text): an optional sign and one or more decimal digits; anything else
\* raises ValueError (ok = FALSE)
ParseInt(s) ==
    LET body == IF s # <<>> /\ Head(s) \in {"+", "-"} THEN Tail(s) ELSE s
        neg == s # <<>> /\ Head(s) = "-"
    IN  IF body = <<>> \/ \E i \in 1..Len(body) : ~IsDigit(body[i])
        THEN [ok |-> FALSE, val |-> 0]
        ELSE [ok |-> TRUE,
              val |-> IF neg THEN 0 - DigitsValue(body, 0) ELSE DigitsValue(body, 0)]

\* int(file.stem.replace("day", ""))
DayOfName(name) == ParseInt(RemoveAll(Stem(name), DayPrefix))

----------------------------------------------------------------------------
(* File contents *)

\* What a solution file does when loaded and called.  Each operation is
\* "ok" (defined, returns), "raise" (defined, raises) or "missing" (the
\* module has no such attribute); load is exec_module: "ok" or "raise".
UnitKinds ==
    {"Good", "LoadRaises", "ParseRaises", "P1Raises", "P2Raises",
     "NoParse", "NoP1", "NoP2"}

Behaviour(kind) ==
    [load        |-> IF kind = "LoadRaises" THEN "raise" ELSE "ok",
     parse_input |-> CASE kind = "ParseRaises" -> "raise"
                       [] kind = "NoParse" -> "missing"
                       [] OTHER -> "ok",
     part_one    |-> CASE kind = "P1Raises" -> "raise"
                       [] kind = "NoP1" -> "missing"
                       [] OTHER -> "ok",
     part_two    |-> CASE kind = "P2Raises" -> "raise"
                       [] kind = "NoP2" -> "missing"
                       [] OTHER -> "ok"]

\* an empty file (touch)
EmptyFile == [unit |-> "empty", year |-> 0, day |-> 0, padded |-> <<>>]

\* a hand-made file that scaffold did not write
StrayFile == [unit |-> "stray", year |-> 0, day |-> 0, padded |-> <<>>]

\* template.format(year=year, day=day, day_padded=day_padded): the three
\* substitution slots, and a unit that defines the three operations
Render(year, day, day_padded) ==
    [unit |-> "Good", year |-> year, day |-> day, padded |-> day_padded]

\* A directory is a function from the names of its files to their contents.
EmptyDir == <<>>

\* path.exists()
Exists(dir, name) == name \in DOMAIN dir

\* the directory after path.write_text(content) or path.touch() of a new file
Put(dir, name, content) ==
    [n \in DOMAIN dir \cup {name} |-> IF n = name THEN content ELSE dir[n]]

\* the directory after path.unlink() of one of its files
Remove(dir, name) == [n \in DOMAIN dir \ {name} |-> dir[n]]

----------------------------------------------------------------------------
(* Configuration *)

CfgAbsent == [present |-> FALSE, haskey |-> FALSE, year |-> 0]

CfgNoKey == [present |-> TRUE, haskey |-> FALSE, year |-> 0]

CfgYear(y) == [present |-> TRUE, haskey |-> TRUE, year |-> y]

CfgStates == {CfgAbsent, CfgNoKey} \cup {CfgYear(y) : y \in Years}

\* load_config(): open() raises FileNotFoundError when the file is absent
LoadConfig(c) == [raised |-> ~c.present, dict |-> c]

\* config.get("year", 2025)
ConfigYear(c) == IF c.haskey THEN c.year ELSE DefaultYear

----------------------------------------------------------------------------
(* Registry enumerator *)

RECURSIVE UnsortedDays(_)
\* Mutant of SortedDays: `return days` without sorted(), in an order the
\* directory scan can produce.
UnsortedDays(names) ==
    IF names = {} THEN <<>>
    ELSE LET n == CHOOSE n \in names :
                    \A m \in names : DayOfName(n).val >= DayOfName(m).val
         IN  <<DayOfName(n).val>> \o UnsortedDays(names \ {n})

RECURSIVE SortedDays(_)
\* sorted(days) of the day numbers parsed from a set of file names: one
\* entry per file, duplicates kept
SortedDays(names) ==
    IF names = {} THEN <<>>
    ELSE LET n == CHOOSE n \in names :
                    \A m \in names : DayOfName(n).val <= DayOfName(m).val
         IN  <<DayOfName(n).val>> \o SortedDays(names \ {n})

\* the files for which the loop body appends a day: matched by the glob and
\* parsed without ValueError
ListedFiles(dir) ==
    {n \in DOMAIN dir : GlobDayPy(n) /\ DayOfName(n).ok}

\* get_available_days(year)
get_available_days(year) == SortedDays(ListedFiles(sol[year]))

----------------------------------------------------------------------------
(* Command results *)

NoPath == [year |-> 0, name |-> <<>>]

NoOut ==
    [cmd |-> "none", year |-> 0, day |-> 0, status |-> "none", exit |-> 0,
     path |-> NoPath, ops |-> <<>>, printed |-> <<>>, listed |-> <<>>,
     reports |-> <<>>, total |-> 0, final |-> FALSE]

\* main(): config = load_config() raises before any command runs
Crash(cmd, day) ==
    [NoOut EXCEPT !.cmd = cmd, !.day = day, !.status = "crash", !.exit = 1]

\* current_year = args.year: the --year flag, or the configured year by
\* default (flag 0 stands for no flag)
CurrentYear(flag) == IF flag = 0 THEN ConfigYear(cfg) ELSE flag

Flags == Years \cup {0}

----------------------------------------------------------------------------
(* Scaffold generator *)

DownloadOutcomes == {"none", "input", "both"}

\* Mutant of TouchIfAbsent: no placeholder is created.
TouchSkipped(content) == content

\* Mutant of TouchIfAbsent: the placeholder is created unconditionally,
\* truncating what was there.
TouchTruncating(content) == "empty"

\* if not path.exists(): path.touch()
TouchIfAbsent(content) == IF content = "absent" THEN "empty" ELSE content

\* the partition scaffold_day works in: config.get("year", 2025)
ScaffoldYear == ConfigYear(cfg)

\* Mutant of SolutionExists: the check looks for the unpadded name
\* (day7.py), which scaffold never writes.
SolutionExistsUnpadded(year, day) ==
    Exists(sol[year], DayPrefix \o Decimal(day) \o PySuffix)

\* if solution_path.exists(): raise FileExistsError
SolutionExists(year, day) == Exists(sol[year], SolutionName(day))

\* Everything scaffold_day does after its existence check: the optional
\* download (dl: what the download tool managed to write before it failed,
\* if it failed), the directories and package markers, the conftest, the
\* solution file, the test file and the placeholders.
ScaffoldFiles(year, day, download, dl) ==
    LET name == SolutionName(day)
        dir == sol[year]
        \* (solutions_dir / "__init__.py").touch()
        marked == IF Exists(dir, InitName) THEN dir ELSE Put(dir, InitName, EmptyFile)
        gotInput == download /\ dl \in {"input", "both"}
        gotPuzzle == download /\ dl = "both"
    IN  /\ writes[year][day] < MaxWrites
        /\ input' = [input EXCEPT ![year][day] =
                        IF gotInput THEN "data" ELSE TouchIfAbsent(@)]
        /\ puzzle' = [puzzle EXCEPT ![year][day] =
                        IF gotPuzzle THEN "data" ELSE TouchIfAbsent(@)]
        /\ testsInit' = [testsInit EXCEPT ![year] = TRUE]
        /\ conftest' = [conftest EXCEPT ![year] =
                        IF @ = "absent" THEN "generated" ELSE @]
        /\ sol' = [sol EXCEPT
                        ![year] = Put(marked, name, Render(year, day, DayPadded(day)))]
        /\ writes' = [writes EXCEPT ![year][day] = @ + 1]
        /\ tst' = [tst EXCEPT ![year][day] = "generated"]
        /\ example' = [example EXCEPT ![year][day] = TouchIfAbsent(@)]

\* main(), command "scaffold": scaffold_day(args.day, download=args.download)
CmdScaffold(flag, day, download, dl) ==
    /\ UNCHANGED <<cfg, pc>>
    /\ IF LoadConfig(cfg).raised
       THEN /\ out' = Crash("scaffold", day)
            /\ UNCHANGED fsvars
       ELSE LET year == ScaffoldYear
            IN  IF SolutionExists(year, day)
                THEN /\ out' = [NoOut EXCEPT !.cmd = "scaffold",
                                    !.year = CurrentYear(flag), !.day = day,
                                    !.status = "exists", !.exit = 1]
                     /\ UNCHANGED fsvars
                ELSE /\ ScaffoldFiles(year, day, download, dl)
                     /\ out' = [NoOut EXCEPT !.cmd = "scaffold",
                                    !.year = CurrentYear(flag), !.day = day,
                                    !.status = "ok", !.exit = 0,
                                    !.path = [year |-> year, name |-> SolutionName(day)]]

----------------------------------------------------------------------------
(* Execution harness *)

\* Mutant of RunOps: the unit is validated before anything runs, so a unit
\* that lacks an operation has none of its operations invoked.
RunOpsValidated(b) ==
    IF "missing" \in {b.parse_input, b.part_one, b.part_two}
    THEN [calls |-> <<>>, done |-> FALSE]
    ELSE IF b.parse_input = "raise" THEN [calls |-> <<"parse_input">>, done |-> FALSE]
    ELSE IF b.part_one = "raise"
         THEN [calls |-> <<"parse_input", "part_one">>, done |-> FALSE]
    ELSE [calls |-> <<"parse_input", "part_one", "part_two">>,
          done |-> b.part_two = "ok"]

\* module.parse_input(...), module.part_one(...), module.part_two(...) in
\* that order.  A missing attribute raises AttributeError before the call; a
\* raising operation raises inside it.  calls: the operations invoked;
\* done: all three returned.
RunOps(b) ==
    IF b.parse_input = "missing" THEN [calls |-> <<>>, done |-> FALSE]
    ELSE IF b.parse_input = "raise" THEN [calls |-> <<"parse_input">>, done |-> FALSE]
    ELSE IF b.part_one = "missing" THEN [calls |-> <<"parse_input">>, done |-> FALSE]
    ELSE IF b.part_one = "raise"
         THEN [calls |-> <<"parse_input", "part_one">>, done |-> FALSE]
    ELSE IF b.part_two = "missing"
         THEN [calls |-> <<"parse_input", "part_one">>, done |-> FALSE]
    ELSE IF b.part_two = "raise"
         THEN [calls |-> <<"parse_input", "part_one", "part_two">>, done |-> FALSE]
    ELSE [calls |-> <<"parse_input", "part_one", "part_two">>, done |-> TRUE]

\* Mutant of run_day: part_one and part_two are each guarded on their own,
\* so part_two is still invoked after part_one raised.
run_day_guarded(year, day, t1, t2) ==
    LET name == SolutionName(day)
        base == [NoOut EXCEPT !.cmd = "solve", !.year = year, !.day = day, !.exit = 1]
    IN  IF ~Exists(sol[year], name)
        THEN [base EXCEPT !.status = "solution_not_found"]
        ELSE LET b == Behaviour(sol[year][name].unit)
             IN  IF b.load = "raise"
                 THEN [base EXCEPT !.status = "error", !.ops = <<"load">>]
                 ELSE IF input[year][day] = "absent"
                 THEN [base EXCEPT !.status = "input_not_found",
                                   !.ops = <<"load", "read_input">>]
                 ELSE IF b.parse_input # "ok"
                 THEN [base EXCEPT !.status = "error",
                                   !.ops = <<"load", "read_input">> \o
                                           (IF b.parse_input = "raise"
                                            THEN <<"parse_input">> ELSE <<>>)]
                 ELSE IF b.part_one = "ok" /\ b.part_two = "ok"
                 THEN [base EXCEPT !.status = "ok", !.exit = 0,
                                   !.ops = <<"load", "read_input", "parse_input",
                                             "part_one", "part_two">>,
                                   !.printed = <<"header", "part1", "part2">>,
                                   !.reports = <<[day |-> day, status |-> "ok",
                                                  calls |-> <<"parse_input", "part_one",
                                                              "part_two">>,
                                                  time1 |-> t1, time2 |-> t2,
                                                  elapsed |-> t1 + t2]>>]
                 ELSE [base EXCEPT !.status = "error",
                                   !.ops = <<"load", "read_input", "parse_input">> \o
                                           (IF b.part_one = "missing"
                                            THEN <<>> ELSE <<"part_one">>) \o
                                           (IF b.part_two = "missing"
                                            THEN <<>> ELSE <<"part_two">>),
                                   !.printed = <<"header">>]

\* run_day(day, year); t1, t2: the two measured times
run_day(year, day, t1, t2) ==
    LET name == SolutionName(day)
        base == [NoOut EXCEPT !.cmd = "solve", !.year = year, !.day = day, !.exit = 1]
    IN  IF ~Exists(sol[year], name)
        THEN [base EXCEPT !.status = "solution_not_found"]
        ELSE LET b == Behaviour(sol[year][name].unit)
                 r == RunOps(b)
             IN  IF b.load = "raise"
                 THEN [base EXCEPT !.status = "error", !.ops = <<"load">>]
                 ELSE IF input[year][day] = "absent"
                 THEN [base EXCEPT !.status = "input_not_found",
                                   !.ops = <<"load", "read_input">>]
                 ELSE IF ~r.done
                 THEN [base EXCEPT !.status = "error",
                                   !.ops = <<"load", "read_input">> \o r.calls,
                                   !.printed = IF b.parse_input = "ok"
                                               THEN <<"header">> ELSE <<>>]
                 ELSE [base EXCEPT !.status = "ok", !.exit = 0,
                                   !.ops = <<"load", "read_input">> \o r.calls,
                                   !.printed = <<"header", "part1", "part2">>,
                                   !.reports = <<[day |-> day, status |-> "ok",
                                                  calls |-> r.calls,
                                                  time1 |-> t1, time2 |-> t2,
                                                  elapsed |-> t1 + t2]>>]

\* Mutant of AttemptDay: the pass does not notice a missing input file and
\* runs the operations on nothing.
AttemptDayUnreadInput(year, day, t1, t2) ==
    LET name == SolutionName(day)
        fail == [day |-> day, status |-> "error", calls |-> <<>>,
                 time1 |-> 0, time2 |-> 0, elapsed |-> 0]
    IN  IF ~Exists(sol[year], name) THEN fail
        ELSE LET b == Behaviour(sol[year][name].unit)
                 r == RunOps(b)
             IN  IF b.load = "raise" THEN fail
                 ELSE IF ~r.done
                 THEN [fail EXCEPT !.calls = r.calls,
                                   !.time1 = IF b.parse_input = "ok" /\ b.part_one = "ok"
                                             THEN t1 ELSE 0]
                 ELSE [day |-> day, status |-> "ok", calls |-> r.calls,
                       time1 |-> t1, time2 |-> t2, elapsed |-> t1 + t2]

\* One pass of the body of run_all's loop, with the two times it measures.
\* There is no existence check: a missing file makes exec_module raise,
\* which `except Exception` catches like any other error of the pass.
AttemptDay(year, day, t1, t2) ==
    LET name == SolutionName(day)
        fail == [day |-> day, status |-> "error", calls |-> <<>>,
                 time1 |-> 0, time2 |-> 0, elapsed |-> 0]
    IN  IF ~Exists(sol[year], name) THEN fail
        ELSE LET b == Behaviour(sol[year][name].unit)
                 r == RunOps(b)
             IN  IF b.load = "raise" THEN fail
                 ELSE IF input[year][day] = "absent"
                 THEN [fail EXCEPT !.status = "input_missing"]
                 ELSE IF ~r.done
                 THEN [fail EXCEPT !.calls = r.calls,
                                   !.time1 = IF b.parse_input = "ok" /\ b.part_one = "ok"
                                             THEN t1 ELSE 0]
                 ELSE [day |-> day, status |-> "ok", calls |-> r.calls,
                       time1 |-> t1, time2 |-> t2, elapsed |-> t1 + t2]

\* Mutant of Accumulate: the total is advanced as each part is timed, so a
\* pass that fails after part_one has already added its first time.
AccumulateEachPart(total, rep) == total + rep.time1 + rep.time2

\* elapsed = time1 + time2; total_time += elapsed: reached only by a pass
\* that ran to its end
Accumulate(total, rep) ==
    IF rep.status = "ok" THEN total + rep.elapsed ELSE total

\* main(), command "solve": run_day(args.day, current_year)
CmdSolve(flag, day) ==
    /\ UNCHANGED <<cfg, pc>>
    /\ UNCHANGED fsvars
    /\ IF LoadConfig(cfg).raised
       THEN out' = Crash("solve", day)
       ELSE \E t1 \in Durations, t2 \in Durations :
                out' = run_day(CurrentYear(flag), day, t1, t2)

\* a batch is between its enumeration and its last line
Running == out.cmd = "all" /\ out.status = "running"

\* main(), command "all": run_all(current_year) up to its loop
CmdAll(flag) ==
    /\ UNCHANGED <<cfg, pc>>
    /\ UNCHANGED fsvars
    /\ IF LoadConfig(cfg).raised
       THEN out' = Crash("all", 0)
       ELSE LET year == CurrentYear(flag)
                available_days == get_available_days(year)
                base == [NoOut EXCEPT !.cmd = "all", !.year = year,
                                      !.listed = available_days]
            IN  IF available_days = <<>>
                THEN out' = [base EXCEPT !.status = "no_solutions"]
                ELSE out' = [base EXCEPT !.status = "running"]

\* run_all: one iteration of `for day in available_days`
AllPass ==
    /\ Running
    /\ Len(out.reports) < Len(out.listed)
    /\ \E t1 \in Durations, t2 \in Durations :
         LET day == out.listed[Len(out.reports) + 1]
             rep == AttemptDay(out.year, day, t1, t2)
         IN  out' = [out EXCEPT !.reports = Append(@, rep),
                                !.total = Accumulate(@, rep)]
    /\ UNCHANGED <<cfg, pc>>
    /\ UNCHANGED fsvars

\* run_all: the loop is over; print(f"Total time: ...")
AllEnd ==
    /\ Running
    /\ Len(out.reports) = Len(out.listed)
    /\ out' = [out EXCEPT !.status = "done", !.final = TRUE]
    /\ UNCHANGED <<cfg, pc>>
    /\ UNCHANGED fsvars

\* run_all has returned and the process ends; what it printed stays on the
\* terminal and no later command reads it
AllReturn ==
    /\ out.cmd = "all"
    /\ out.status \in {"done", "no_solutions"}
    /\ out' = NoOut
    /\ UNCHANGED <<cfg, pc>>
    /\ UNCHANGED fsvars

----------------------------------------------------------------------------
(* Two scaffold invocations running at once: scaffold_day split at the      *)
(* point between its existence check and its writes                         *)

Idle == [at |-> "idle", year |-> 0, day |-> 0, result |-> "none"]

\* scaffold_day up to and including `if solution_path.exists(): raise`
ScaffoldCheck(p, day) ==
    /\ pc[p].at \in {"idle", "done"}
    /\ ~LoadConfig(cfg).raised
    /\ pc' = [pc EXCEPT ![p] =
                IF SolutionExists(ScaffoldYear, day)
                THEN [at |-> "done", year |-> ScaffoldYear, day |-> day,
                      result |-> "exists"]
                ELSE [at |-> "checked", year |-> ScaffoldYear, day |-> day,
                      result |-> "none"]]
    /\ UNCHANGED <<cfg, out>>
    /\ UNCHANGED fsvars

\* scaffold_day from the download to its return
ScaffoldWrite(p) ==
    /\ pc[p].at = "checked"
    /\ ScaffoldFiles(pc[p].year, pc[p].day, FALSE, "none")
    /\ pc' = [pc EXCEPT ![p].at = "done", ![p].result = "ok"]
    /\ UNCHANGED <<cfg, out>>

----------------------------------------------------------------------------
(* The user's own changes to the workspace *)

\* the user edits a solution file: the unit it defines changes
EditSolution(year, day, kind) ==
    /\ SolutionExists(year, day)
    /\ sol[year][SolutionName(day)].unit # kind
    /\ sol' = [sol EXCEPT ![year][SolutionName(day)].unit = kind]
    /\ out' = NoOut
    /\ UNCHANGED <<cfg, tst, conftest, testsInit, example, input, puzzle, writes, pc>>

\* the user removes an input file
DeleteInput(year, day) ==
    /\ input[year][day] # "absent"
    /\ input' = [input EXCEPT ![year][day] = "absent"]
    /\ out' = NoOut
    /\ UNCHANGED <<cfg, sol, tst, conftest, testsInit, example, puzzle, writes, pc>>

\* the user drops a file of their own into a solutions directory
AddStray(year, name) ==
    /\ name \in StrayNames
    /\ ~Exists(sol[year], name)
    /\ sol' = [sol EXCEPT ![year] = Put(@, name, StrayFile)]
    /\ out' = NoOut
    /\ UNCHANGED <<cfg, tst, conftest, testsInit, example, input, puzzle, writes, pc>>

\* the user fills in the example of a day
EditExample(year, day) ==
    /\ example[year][day] # "data"
    /\ example' = [example EXCEPT ![year][day] = "data"]
    /\ out' = NoOut
    /\ UNCHANGED <<cfg, sol, tst, conftest, testsInit, input, puzzle, writes, pc>>

\* the user edits the conftest that a scaffold generated
EditConftest(year) ==
    /\ conftest[year] = "generated"
    /\ conftest' = [conftest EXCEPT ![year] = "edited"]
    /\ out' = NoOut
    /\ UNCHANGED <<cfg, sol, tst, testsInit, example, input, puzzle, writes, pc>>

\* the user writes their assertions into the test file that a scaffold
\* generated
EditTest(year, day) ==
    /\ tst[year][day] = "generated"
    /\ tst' = [tst EXCEPT ![year][day] = "edited"]
    /\ out' = NoOut
    /\ UNCHANGED <<cfg, sol, conftest, testsInit, example, input, puzzle, writes, pc>>

\* the user deletes the solution file of a day
DeleteSolution(year, day) ==
    /\ SolutionExists(year, day)
    /\ sol' = [sol EXCEPT ![year] = Remove(@, SolutionName(day))]
    /\ out' = NoOut
    /\ UNCHANGED <<cfg, tst, conftest, testsInit, example, input, puzzle, writes, pc>>

----------------------------------------------------------------------------
(* Download command *)

\* main(), command "download": download_input unless --puzzle-only, then
\* download_puzzle unless --input-only; the first failure ends the command
\* with exit status 1.  okInput, okPuzzle: whether the download tool
\* delivers the file (it overwrites what is there).
CmdDownload(flag, day, inputOnly, puzzleOnly, okInput, okPuzzle) ==
    /\ UNCHANGED <<cfg, pc, sol, tst, conftest, testsInit, example, writes>>
    /\ IF LoadConfig(cfg).raised
       THEN /\ out' = Crash("download", day)
            /\ UNCHANGED <<input, puzzle>>
       ELSE LET year == CurrentYear(flag)
                wantInput == ~puzzleOnly
                wantPuzzle == ~inputOnly
                gotInput == wantInput /\ okInput
                gotPuzzle == wantPuzzle /\ (wantInput => okInput) /\ okPuzzle
                failed == (wantInput /\ ~gotInput) \/ (wantPuzzle /\ ~gotPuzzle)
            IN  /\ input' = IF gotInput
                             THEN [input EXCEPT ![year][day] = "data"] ELSE input
                /\ puzzle' = IF gotPuzzle
                              THEN [puzzle EXCEPT ![year][day] = "data"] ELSE puzzle
                /\ out' = [NoOut EXCEPT !.cmd = "download", !.year = year,
                                        !.day = day,
                                        !.status = IF failed THEN "error" ELSE "ok",
                                        !.exit = IF failed THEN 1 ELSE 0]

----------------------------------------------------------------------------
(* Specifications *)

\* a fresh checkout: no year directory yet
InitFiles ==
    /\ sol = [y \in Years |-> EmptyDir]
    /\ tst = [y \in Years |-> [d \in Days |-> "absent"]]
    /\ conftest = [y \in Years |-> "absent"]
    /\ testsInit = [y \in Years |-> FALSE]
    /\ example = [y \in Years |-> [d \in Days |-> "absent"]]
    /\ input = [y \in Years |-> [d \in Days |-> "absent"]]
    /\ puzzle = [y \in Years |-> [d \in Days |-> "absent"]]
    /\ writes = [y \in Years |-> [d \in Days |-> 0]]
    /\ out = NoOut
    /\ pc = [p \in Procs |-> Idle]

\* The command line under every configuration file and every --year flag:
\* scaffold (with and without download) and solve.
InitCli == InitFiles /\ cfg \in CfgStates

NextCli ==
    \/ \E f \in Flags, d \in Days, dl \in DownloadOutcomes :
            CmdScaffold(f, d, dl # "none", dl)
    \/ \E f \in Flags, d \in Days : CmdSolve(f, d)

SpecCli == InitCli /\ [][NextCli]_vars

\* One configured year.
InitRun == InitFiles /\ cfg = CfgYear(DefaultYear)

\* Single-day runs: scaffolded days whose units the user edits in every way
\* and whose inputs the user removes.
NextSolve ==
    \/ \E d \in Days : CmdScaffold(0, d, FALSE, "none")
    \/ \E d \in Days, k \in UnitKinds : EditSolution(DefaultYear, d, k)
    \/ \E d \in Days : DeleteInput(DefaultYear, d)
    \/ \E d \in Days : CmdSolve(0, d)

SpecSolve == InitRun /\ [][NextSolve]_vars

\* Batch runs: scaffolded days that fail to load or raise in an operation,
\* days without input, and a stray file that repeats a day.  A
\* batch runs to its end and returns before the next command or edit.
BatchKinds == {"Good", "LoadRaises", "ParseRaises", "P1Raises", "P2Raises"}

RunStray == <<"d", "a", "y", "7", ".", "p", "y">>

NextRun ==
    \/ out.cmd # "all" /\ \E d \in Days : CmdScaffold(0, d, FALSE, "none")
    \/ out.cmd # "all" /\ \E d \in Days, k \in BatchKinds : EditSolution(DefaultYear, d, k)
    \/ out.cmd # "all" /\ \E d \in Days : DeleteInput(DefaultYear, d)
    \/ out.cmd # "all" /\ AddStray(DefaultYear, RunStray)
    \/ out.cmd # "all" /\ CmdAll(0)
    \/ AllPass
    \/ AllEnd
    \/ AllReturn

SpecRun == InitRun /\ [][NextRun]_vars

\* The enumerator over every mix of scaffolded days and stray files.
NextEnum ==
    \/ ~Running /\ \E d \in Days : CmdScaffold(0, d, FALSE, "none")
    \/ ~Running /\ \E n \in StrayNames : AddStray(DefaultYear, n)
    \/ ~Running /\ CmdAll(0)
    \/ AllPass
    \/ AllEnd

SpecEnum == InitRun /\ [][NextEnum]_vars

\* Two scaffold invocations interleaved, and the user editing what they wrote.
InitRace == InitFiles /\ cfg \in {CfgYear(y) : y \in Years}

NextRace ==
    \/ \E p \in Procs, d \in Days : ScaffoldCheck(p, d)
    \/ \E p \in Procs : ScaffoldWrite(p)
    \/ \E y \in Years, d \in Days : EditSolution(y, d, "P1Raises")

SpecRace == InitRace /\ [][NextRace]_vars

\* Scaffolding into a workspace that already holds files: data downloaded
\* before the scaffold, examples, tests and a conftest that the user
\* edited, solution files that the user deleted.
FrameDays == {7}

NextFrame ==
    \/ \E d \in Days : CmdScaffold(0, d, FALSE, "none")
    \/ \E d \in FrameDays, io \in BOOLEAN, po \in BOOLEAN,
            oi \in BOOLEAN, op \in BOOLEAN : CmdDownload(0, d, io, po, oi, op)
    \/ \E d \in FrameDays : EditExample(DefaultYear, d)
    \/ EditConftest(DefaultYear)
    \/ \E d \in FrameDays : EditTest(DefaultYear, d)
    \/ \E d \in FrameDays : DeleteSolution(DefaultYear, d)

SpecFrame == InitRun /\ [][NextFrame]_vars

\* Runs that follow a scaffold directly, in workspaces where the input of a
\* day may have been downloaded before its scaffold, and where the user
\* deletes inputs and solution files.
NextFresh ==
    \/ out.cmd # "all" /\ \E d \in Days : CmdScaffold(0, d, FALSE, "none")
    \/ out.cmd # "all" /\ \E d \in FrameDays, oi \in BOOLEAN, op \in BOOLEAN :
                                CmdDownload(0, d, FALSE, FALSE, oi, op)
    \/ out.cmd # "all" /\ \E d \in FrameDays : DeleteSolution(DefaultYear, d)
    \/ out.cmd # "all" /\ \E d \in FrameDays : DeleteInput(DefaultYear, d)
    \/ out.cmd # "all" /\ \E d \in Days : CmdSolve(0, d)
    \/ out.cmd # "all" /\ CmdAll(0)
    \/ AllPass
    \/ AllEnd
    \/ AllReturn

SpecFresh == InitRun /\ [][NextFresh]_vars

----------------------------------------------------------------------------
(* Claims *)

RECURSIVE AscendingSeq(_)
\* the strictly ascending sequence of the members of a set of integers
AscendingSeq(S) ==
    IF S = {} THEN <<>>
    ELSE LET m == CHOOSE m \in S : \A n \in S : m <= n
         IN  <<m>> \o AscendingSeq(S \ {m})

\* the days a successful scaffold has written in a partition
ScaffoldedDays(year) == {d \in Days : writes[year][d] > 0}

\* C1: in the partition P that scaffold resolves, a scaffold of a day that
\* has no solution file succeeds and writes the rendered file, and a
\* scaffold of the same day that follows it immediately fails with
\* AlreadyExists (exit 1) and leaves every file as the first call wrote it:
\* nothing is created, nothing is written again.
ScaffoldCreatesOnce ==
    [][ (out'.cmd = "scaffold" /\ out'.status # "crash") =>
            LET y == ScaffoldYear
                d == out'.day
            IN  /\ ~SolutionExists(y, d) =>
                     /\ out'.status = "ok"
                     /\ sol'[y][SolutionName(d)] = Render(y, d, DayPadded(d))
                     /\ writes'[y][d] = 1
                /\ (out.cmd = "scaffold" /\ out.status = "ok" /\ out.day = d) =>
                     /\ out'.status = "exists"
                     /\ out'.exit = 1
                     /\ sol' = sol
                     /\ writes' = writes
                     /\ UNCHANGED fsvars ]_vars

\* C1 witness: a second scaffold of a day was refused, and the file is
\* still the one that the first call wrote, written once.
ScaffoldRefusedSecond ==
    /\ out.cmd = "scaffold"
    /\ out.status = "exists"
    /\ writes[ScaffoldYear][out.day] = 1
    /\ sol[ScaffoldYear][SolutionName(out.day)]
            = Render(ScaffoldYear, out.day, DayPadded(out.day))

\* C2: after a successful scaffold of day d under --year Y, the solution
\* file of d exists in partition Y (so that solve d under the same --year Y
\* finds it).
YearFlagSelectsPartition ==
    (out.cmd = "scaffold" /\ out.status = "ok") => SolutionExists(out.year, out.day)

\* C5: in a partition that only scaffold calls have written, the listing is
\* exactly the days scaffolded so far (the day just scaffolded among them),
\* in strictly ascending order, without duplicates, whatever the order of
\* the calls.
ListingIsScaffoldedDays ==
    \A y \in Years :
        /\ get_available_days(y) = AscendingSeq(ScaffoldedDays(y))
        /\ (out.cmd = "scaffold" /\ out.status = "ok" /\ out.path.year = y) =>
                \E i \in 1..Len(get_available_days(y)) :
                    get_available_days(y)[i] = out.day

\* C5 witness: day 1 was scaffolded after days 7 and 12, and the listing is
\* 1, 7, 12.
ListingAfterOutOfOrderScaffold ==
    /\ out.cmd = "scaffold"
    /\ out.status = "ok"
    /\ out.day = 1
    /\ get_available_days(out.path.year) = <<1, 7, 12>>

\* C7: with the configuration file absent, or present without a year key,
\* no command fails: each proceeds with the default year.
ConfigFallsBack ==
    (~cfg.haskey /\ out.cmd # "none") =>
        /\ out.status # "crash"
        /\ (out.cmd = "scaffold" /\ out.status = "ok") => out.path.year = DefaultYear

\* the steps of a single-day run, in the order of the code
StepOrder == <<"load", "read_input", "parse_input", "part_one", "part_two">>

IsPrefix(s, t) == Len(s) <= Len(t) /\ \A i \in 1..Len(s) : s[i] = t[i]

Occurs(x, s) == \E i \in 1..Len(s) : s[i] = x

\* how a step of the unit in a file ends: "ok", "raise" or "missing"
StepEnds(year, day, step) ==
    LET b == Behaviour(sol[year][SolutionName(day)].unit)
    IN  CASE step = "load" -> b.load
          [] step = "read_input" ->
                IF input[year][day] = "absent" THEN "raise" ELSE "ok"
          [] step = "parse_input" -> b.parse_input
          [] step = "part_one" -> b.part_one
          [] step = "part_two" -> b.part_two

\* the solution file of the day lacks one of the three operations
LacksOperation(year, day) ==
    /\ SolutionExists(year, day)
    /\ \E s \in {"parse_input", "part_one", "part_two"} :
            StepEnds(year, day, s) = "missing"

\* C9: a single-day run performs a prefix of load, read input, parse_input,
\* part_one, part_two in that order, each at most once.  Without a solution
\* file nothing is done; otherwise the run does every step up to the first
\* one that fails and none after it; a missing input stops the run before
\* parse_input; the exit status is zero exactly when all five steps
\* completed, and only then are the two results printed.
SolveStopsAtFirstFailure ==
    (out.cmd = "solve" /\ out.status # "crash") =>
        LET y == out.year
            d == out.day
            n == Len(out.ops)
        IN  /\ IsPrefix(out.ops, StepOrder)
            /\ ~SolutionExists(y, d) => (out.ops = <<>> /\ out.exit = 1)
            /\ SolutionExists(y, d) =>
                  /\ \A i \in 1..n :
                        i < n => StepEnds(y, d, StepOrder[i]) = "ok"
                  /\ n < Len(StepOrder) =>
                        \/ n > 0 /\ StepEnds(y, d, StepOrder[n]) = "raise"
                        \/ StepEnds(y, d, StepOrder[n + 1]) = "missing"
                  /\ (n > 0 /\ StepEnds(y, d, StepOrder[n]) # "ok") => out.exit = 1
                  /\ input[y][d] = "absent" => ~Occurs("parse_input", out.ops)
            /\ out.exit \in {0, 1}
            /\ out.exit = 0 <=>
                  /\ out.ops = StepOrder
                  /\ SolutionExists(y, d)
                  /\ \A i \in 1..Len(StepOrder) : StepEnds(y, d, StepOrder[i]) = "ok"
            /\ out.exit = 0 <=> out.status = "ok"
            /\ (Occurs("part1", out.printed) \/ Occurs("part2", out.printed))
                    => out.exit = 0
            /\ out.exit = 0 => out.printed = <<"header", "part1", "part2">>

\* C9 witness: a run whose part_one raised: part_two was not invoked, no
\* result was printed, the exit status is 1.
SolveStoppedAtPartOne ==
    /\ out.cmd = "solve"
    /\ out.ops = <<"load", "read_input", "parse_input", "part_one">>
    /\ SolutionExists(out.year, out.day)
    /\ StepEnds(out.year, out.day, "part_one") = "raise"
    /\ out.exit = 1
    /\ out.printed = <<"header">>

Classify(year, day) ==
    IF ~SolutionExists(year, day) THEN "error"
    ELSE IF StepEnds(year, day, "load") # "ok" THEN "error"
    ELSE IF StepEnds(year, day, "read_input") # "ok" THEN "input_missing"
    ELSE IF \E i \in 3..5 : StepEnds(year, day, StepOrder[i]) # "ok" THEN "error"
    ELSE "ok"

\* load, input read, parse_input, part_one and part_two all complete
FullyOk(year, day) == Classify(year, day) = "ok"

Batch == out.cmd = "all" /\ out.status \in {"running", "done"}

RECURSIVE SumOverOk(_, _, _)
\* the sum of time1 + time2 over the first n reports whose day is FullyOk
SumOverOk(year, reports, n) ==
    IF n = 0 THEN 0
    ELSE SumOverOk(year, reports, n - 1) +
         (IF FullyOk(year, reports[n].day)
          THEN reports[n].time1 + reports[n].time2 ELSE 0)

\* C3: a batch attempts the entries of the enumerator's listing one after
\* the other, each entry once, in the listing's ascending order; each pass
\* ends as the files of its own day make it end (load error, missing input,
\* exception in an operation, or success) whatever happened to the days
\* before it; after a failure the next pass, and after the last pass the
\* final line, can always be taken; a finished batch has attempted every
\* entry and printed the final aggregate.
BatchIsolatesFailures ==
    /\ (out.cmd = "all" /\ out.status # "crash") =>
            out.status \in {"running", "done", "no_solutions"}
    /\ Batch =>
        /\ out.listed = get_available_days(out.year)
        /\ \A i \in 1..Len(out.listed), j \in 1..Len(out.listed) :
                i < j => out.listed[i] <= out.listed[j]
        /\ Len(out.reports) <= Len(out.listed)
        /\ \A i \in 1..Len(out.reports) :
                /\ out.reports[i].day = out.listed[i]
                /\ out.reports[i].status = Classify(out.year, out.listed[i])
        /\ (out.status = "running" /\ Len(out.reports) < Len(out.listed)) =>
                ENABLED AllPass
        /\ (out.status = "running" /\ Len(out.reports) = Len(out.listed)) =>
                ENABLED AllEnd
        /\ out.status = "done" =>
                (Len(out.reports) = Len(out.listed) /\ out.final)

\* C3 witness: a finished batch over three days whose first day failed with
\* an error and whose second day had no input; the third day ran and the
\* final line was printed.
BatchRanPastFailures ==
    /\ out.cmd = "all"
    /\ out.status = "done"
    /\ out.final
    /\ out.listed = <<1, 7, 12>>
    /\ Len(out.reports) = 3
    /\ out.reports[1].status = "error"
    /\ out.reports[2].status = "input_missing"
    /\ out.reports[3].status = "ok"

\* C4: in a batch, the successful reports are exactly the passes over days
\* whose load, input read, parse_input, part_one and part_two all complete,
\* each successful pass counts its time1 + time2, and the total is the sum
\* of time1 + time2 over those passes alone: a pass that fails at any step
\* (missing input, part_two raising after part_one returned) adds nothing.
TotalCountsSuccessesOnly ==
    Batch =>
        LET n == Len(out.reports)
            okReports == {i \in 1..n : out.reports[i].status = "ok"}
            okDays == {i \in 1..n : FullyOk(out.year, out.listed[i])}
        IN  /\ okReports = okDays
            /\ Cardinality(okReports) = Cardinality(okDays)
            /\ \A i \in okReports :
                    /\ out.reports[i].elapsed
                            = out.reports[i].time1 + out.reports[i].time2
                    /\ out.reports[i].time1 \in Durations
                    /\ out.reports[i].time2 \in Durations
            /\ \A i \in (1..n) \ okReports : out.reports[i].elapsed = 0
            /\ out.total = SumOverOk(out.year, out.reports, n)

\* C4 witness: a finished batch over three days, the second without input
\* and the third with a part_two that raised after part_one had been timed:
\* one successful report, and the total is that day's two times.
TotalExcludesFailedDays ==
    /\ out.cmd = "all"
    /\ out.status = "done"
    /\ Len(out.reports) = 3
    /\ out.reports[1].status = "ok"
    /\ out.reports[2].status = "input_missing"
    /\ out.reports[3].status = "error"
    /\ out.reports[3].time1 > 0
    /\ out.total = out.reports[1].time1 + out.reports[1].time2
    /\ out.total > 0

\* C8: however two scaffold invocations interleave, a solution file is
\* written at most once and at most one of two invocations for the same day
\* and partition succeeds.
ScaffoldIsAtomic ==
    /\ \A y \in Years, d \in Days : writes[y][d] <= 1
    /\ \A p \in Procs, q \in Procs :
            (/\ p # q
             /\ pc[p].result = "ok"
             /\ pc[q].result = "ok"
             /\ pc[p].year = pc[q].year) => pc[p].day # pc[q].day

\* C10: whatever files match day*.py in a solutions directory, the listing
\* has no duplicates and is the ascending sequence of exactly the days
\* whose solution file day<DD>.py exists, and every day a batch visits has
\* its solution file.
ListingMatchesSolutionFiles ==
    /\ \A y \in Years :
            LET l == get_available_days(y)
            IN  /\ \A i \in 1..Len(l), j \in 1..Len(l) : i # j => l[i] # l[j]
                /\ l = AscendingSeq({d \in Days : SolutionExists(y, d)})
    /\ Batch => \A i \in 1..Len(out.reports) :
                    SolutionExists(out.year, out.reports[i].day)

\* C11: a successful scaffold of day d without download leaves the conftest
\* of its partition and the example, input and puzzle files of d exactly as
\* they were when they existed before the call, and creates them (the
\* conftest generated, the others empty) only when they were absent; the
\* data files of every other day and the conftest of every other partition
\* are not touched.
ScaffoldKeepsExistingData ==
    [][ (out'.cmd = "scaffold" /\ out'.status = "ok") =>
            LET y == out'.path.year
                d == out'.day
                kept(before, after, fresh) ==
                    after = IF before = "absent" THEN fresh ELSE before
            IN  /\ kept(conftest[y], conftest'[y], "generated")
                /\ kept(example[y][d], example'[y][d], "empty")
                /\ kept(input[y][d], input'[y][d], "empty")
                /\ kept(puzzle[y][d], puzzle'[y][d], "empty")
                /\ \A yy \in Years : yy # y => conftest'[yy] = conftest[yy]
                /\ \A yy \in Years, dd \in Days :
                        (yy # y \/ dd # d) =>
                            /\ example'[yy][dd] = example[yy][dd]
                            /\ input'[yy][dd] = input[yy][dd]
                            /\ puzzle'[yy][dd] = puzzle[yy][dd] ]_vars

\* C11 witness: a scaffold succeeded in a partition whose conftest the user
\* had edited, for a day whose example was filled in and whose input and
\* puzzle had been downloaded; all four still hold what they held.
ScaffoldKeptExistingData ==
    /\ out.cmd = "scaffold"
    /\ out.status = "ok"
    /\ conftest[out.path.year] = "edited"
    /\ example[out.path.year][out.day] = "data"
    /\ input[out.path.year][out.day] = "data"
    /\ puzzle[out.path.year][out.day] = "data"

\* C13: a scaffold never changes the content of a test file that existed
\* before the call, in particular not of one whose solution file is gone.
ScaffoldKeepsExistingTest ==
    [][ out'.cmd = "scaffold" =>
            \A y \in Years, d \in Days :
                tst[y][d] # "absent" => tst'[y][d] = tst[y][d] ]_vars

\* a single-day run of day d in partition y comes next and does not stop
\* for want of input: it reads the input, calls parse_input, and goes on to
\* part_one and part_two as far as the operations return
SolveFindsInput(y, d) ==
    (out'.cmd = "solve" /\ out'.year = y /\ out'.day = d) =>
        /\ out'.status # "input_not_found"
        /\ IsPrefix(<<"load", "read_input", "parse_input">>, out'.ops)
        /\ (\A i \in 3..5 : StepEnds(y, d, StepOrder[i]) = "ok") =>
                (out'.ops = StepOrder /\ out'.status = "ok")

\* a batch over partition y starts next: it lists day d, and its pass over d
\* does not end for want of input
BatchFindsInput(y, d) ==
    (out'.cmd = "all" /\ out'.year = y) =>
        /\ Occurs(d, out'.listed)
        /\ \A t1 \in Durations, t2 \in Durations :
                LET rep == AttemptDay(y, d, t1, t2)
                IN  /\ rep.status # "input_missing"
                    /\ rep.status = Classify(y, d)
                    /\ (\A i \in 3..5 : StepEnds(y, d, StepOrder[i]) = "ok") =>
                            (rep.status = "ok" /\
                             rep.calls = <<"parse_input", "part_one", "part_two">>)

\* C12 as stated: right after a successful scaffold of day d without
\* download the input file of d is a zero-byte file, and a run of d or a
\* batch that follows does not report a missing input.
ScaffoldLeavesEmptyInput ==
    [][ (out.cmd = "scaffold" /\ out.status = "ok") =>
            /\ input[out.path.year][out.day] = "empty"
            /\ SolveFindsInput(out.path.year, out.day)
            /\ BatchFindsInput(out.path.year, out.day) ]_vars

\* C12 amended: a successful scaffold of day d without download leaves the
\* input file of d in existence: zero-byte when it was absent before the
\* call, with the content it had otherwise.  A run of d or a batch that
\* follows directly does not report a missing input: it passes the file's
\* text to parse_input and goes on to part_one and part_two.
ScaffoldLeavesInputPresent ==
    [][ /\ (out'.cmd = "scaffold" /\ out'.status = "ok") =>
                LET y == out'.path.year
                    d == out'.day
                IN  input'[y][d] = IF input[y][d] = "absent"
                                   THEN "empty" ELSE input[y][d]
        /\ (out.cmd = "scaffold" /\ out.status = "ok") =>
                /\ input[out.path.year][out.day] # "absent"
                /\ SolveFindsInput(out.path.year, out.day)
                /\ BatchFindsInput(out.path.year, out.day) ]_vars

\* C12 witness: a single-day run completed on the zero-byte input that the
\* scaffold of its day created.
SolveRanOnEmptyInput ==
    /\ out.cmd = "solve"
    /\ out.status = "ok"
    /\ out.ops = StepOrder
    /\ writes[out.year][out.day] = 1
    /\ input[out.year][out.day] = "empty"

====
